---- MODULE Spec2Model ----
\* A model of package coffer (src/coffer.go): PtrCoffer, a read/write/seek
\* cursor over a raw memory range [base, stop], and MemCoffer, the variant
\* that mallocs its range and frees it on Close.
\*
\* Addresses are uintptr values of AddrBits bits and Go's int has the same
\* width (the 386 port); int64 offsets are modelled as unbounded integers and
\* only small ones are drawn.
EXTENDS Integers, Sequences, FiniteSets

\* ---------------------------------------------------------------- bounds
AddrBits == 4       \* width of uintptr and of int
MaxSz == 3          \* largest size handed to a constructor
MaxLen == 2         \* longest buffer handed to Read or Write
MaxByte == 2        \* bytes are drawn from 0..MaxByte; memory starts all 0
MaxFrees == 2       \* calls of C.free one behaviour makes

\* ---------------------------------------------------------------- machine integers
Wrap == 2 ^ AddrBits

Addr == 0 .. (Wrap - 1)

\* uintptr(x): the value modulo 2^AddrBits
Uintptr(x) == x % Wrap

\* int(x): the two's complement reading of the low AddrBits bits of x
ToInt(x) == IF (x % Wrap) >= (Wrap \div 2) THEN (x % Wrap) - Wrap ELSE x % Wrap

\* ---------------------------------------------------------------- state
VARIABLES
    kind,   \* "nil": no instance; "ptr": a PtrCoffer; "mem": a MemCoffer; "dead": the process faulted
    p,      \* the instance's fields [base, seek, stop]
    mem,    \* the bytes of the address space
    live,   \* addresses returned by C.malloc and not yet passed to C.free
    freed,  \* the addresses passed to C.free, in order
    owned,  \* the address NewMemCoffer's malloc returned for this instance (0: none)
    decl,   \* the constructor that opened the instance last, and the (base, sz) it was given
    last    \* the last call: its name, arguments, results, the fields before it,
            \* the addresses memmove copied from or to, the bytes read, the addresses freed,
            \* and what the calls so far amount to (trip, hit)

vars == <<kind, p, mem, live, freed, owned, decl, last>>

Zero == [base |-> 0, seek |-> 0, stop |-> 0]

NoCall ==
    [op |-> "none", a |-> 0, b |-> 0, buf |-> <<>>, n |-> 0, err |-> "nil",
     panic |-> FALSE, pre |-> Zero, touched |-> {}, out |-> <<>>, free |-> <<>>,
     trip |-> [st |-> "off", buf |-> <<>>], hit |-> FALSE]

\* ---------------------------------------------------------------- PtrCoffer queries
\* mutant: the closed state goes unnoticed
IsOpen_Always(q) == TRUE

IsOpen(q) == q.base /= 0

IsEOF(q) == q.seek = 0

Diff(q) == ToInt(q.stop - q.base)

Cap(q) == ToInt(ToInt(q.stop - q.base) + 1)

LenOf(q) == IF IsOpen(q) /\ ~IsEOF(q) THEN ToInt(ToInt(q.stop - q.seek) + 1) ELSE 0

Tell(q) == IF IsEOF(q) THEN Cap(q) ELSE Uintptr(q.seek - q.base)

ContainsOffset(q, offset) == offset >= 0 /\ offset <= Diff(q)

\* the Coffer interface's getters, as the code has them
GetBasePtr(q) == q.base

GetSeekPtr(q) == q.base

GetStopPtr(q) == q.base

\* ---------------------------------------------------------------- inputs
\* base addresses a caller hands in: null, a low one, and the two highest
Bases == {0, 1, Wrap - 2, Wrap - 1}

Sizes == (-1) .. MaxSz

\* what C.malloc(sz) can return: NULL, or the start of a block of sz bytes
\* that lies inside the address space
HeapAddrs == {1, Wrap \div 2}

Malloc(sz) == {0} \cup {a \in HeapAddrs : a + sz <= Wrap}

Offsets == (-MaxSz) .. MaxSz

Whences == 0 .. 3

Bytes == 0 .. MaxByte

Lens == 0 .. MaxLen

\* source buffers of every length and content
SrcBufs == UNION {[1 .. l -> Bytes] : l \in Lens}

\* source buffers of every length, holding zero bytes only
ZeroBufs == {[i \in 1 .. l |-> 0] : l \in Lens}

\* a constructor call that opened the instance
Opened(op, err) ==
    op \in {"NewPtrCoffer", "InitPtrCoffer", "NewMemCoffer"} /\ err = "nil"

\* how far the calls since the instance was opened follow the sequence
\* Write(buf) in full, Seek(0, 0), Read(buffer of length Len(buf))
Track(op, a, b, buf, n, err) ==
    IF Opened(op, err)
    THEN [st |-> "fresh", buf |-> <<>>]
    ELSE IF op = "Write" /\ last.trip.st = "fresh" /\ n >= 1 /\ n = Len(buf)
    THEN [st |-> "written", buf |-> buf]
    ELSE IF op = "Seek" /\ last.trip.st = "written" /\ a = 0 /\ b = 0
    THEN [st |-> "rewound", buf |-> last.trip.buf]
    ELSE IF op = "Read" /\ last.trip.st = "rewound" /\ a = Len(last.trip.buf)
    THEN [st |-> "read", buf |-> last.trip.buf]
    ELSE [st |-> "off", buf |-> <<>>]

\* whether a Read or Write has returned os.EOF on this range and no Seek has
\* returned nil since
Hit(op, err) ==
    IF op \in {"Read", "Write"} /\ err = "EOF" THEN TRUE
    ELSE IF op = "Seek" /\ err = "nil" THEN FALSE
    ELSE IF Opened(op, err) THEN FALSE
    ELSE last.hit

Call(op, a, b, buf, n, err) ==
    [op |-> op, a |-> a, b |-> b, buf |-> buf, n |-> n, err |-> err,
     panic |-> FALSE, pre |-> p, touched |-> {}, out |-> <<>>, free |-> <<>>,
     trip |-> Track(op, a, b, buf, n, err), hit |-> Hit(op, err)]

\* ---------------------------------------------------------------- constructors
Init ==
    /\ kind \in {"nil", "ptr", "mem"}
    /\ p = Zero
    /\ mem = [a \in Addr |-> 0]
    /\ live = {}
    /\ freed = <<>>
    /\ owned = 0
    /\ decl = [by |-> "none", base |-> 0, sz |-> 0]
    /\ last = NoCall

\* mutant: a size of 0 is let through
ArgsOk_AcceptsZero(base_, sz) == base_ /= 0 /\ sz >= 0

\* the argument checks shared by NewPtrCoffer and InitPtrCoffer
ArgsOk(base_, sz) == base_ /= 0 /\ sz > 0

\* stop_ := uintptr(base_) + uintptr(sz-1)
StopOf(base_, sz) == Uintptr(base_ + Uintptr(sz - 1))

NewPtrCoffer(base_, sz) ==
    /\ kind = "nil"
    /\ IF ArgsOk(base_, sz)
       THEN /\ kind' = "ptr"
            /\ p' = [base |-> base_, seek |-> base_, stop |-> StopOf(base_, sz)]
            /\ decl' = [by |-> "NewPtrCoffer", base |-> base_, sz |-> sz]
            /\ last' = Call("NewPtrCoffer", base_, sz, <<>>, 0, "nil")
       ELSE /\ last' = Call("NewPtrCoffer", base_, sz, <<>>, 0, "EINVAL")
            /\ UNCHANGED <<kind, p, decl>>
    /\ UNCHANGED <<mem, live, freed, owned>>

InitPtrCoffer(base_, sz) ==
    /\ kind \in {"ptr", "mem"}
    /\ IF ArgsOk(base_, sz) /\ ~IsOpen(p)
       THEN /\ p' = [base |-> base_, seek |-> base_, stop |-> StopOf(base_, sz)]
            /\ decl' = [by |-> "InitPtrCoffer", base |-> base_, sz |-> sz]
            /\ last' = Call("InitPtrCoffer", base_, sz, <<>>, 0, "nil")
       ELSE /\ last' = Call("InitPtrCoffer", base_, sz, <<>>, 0, "EINVAL")
            /\ UNCHANGED <<p, decl>>
    /\ UNCHANGED <<kind, mem, live, freed, owned>>

NewMemCoffer(sz, base_) ==
    /\ kind = "nil"
    /\ IF sz < 0
       THEN /\ last' = Call("NewMemCoffer", 0, sz, <<>>, 0, "EINVAL")
            /\ UNCHANGED <<kind, p, live, owned, decl>>
       ELSE /\ base_ \in Malloc(sz)
            /\ IF base_ = 0
               THEN /\ last' = Call("NewMemCoffer", 0, sz, <<>>, 0, "Errno")
                    /\ UNCHANGED <<kind, p, live, owned, decl>>
               ELSE /\ kind' = "mem"
                    /\ p' = [base |-> base_, seek |-> base_, stop |-> StopOf(base_, sz)]
                    /\ live' = live \cup {base_}
                    /\ owned' = base_
                    /\ decl' = [by |-> "NewMemCoffer", base |-> base_, sz |-> sz]
                    /\ last' = Call("NewMemCoffer", base_, sz, <<>>, 0, "nil")
    /\ UNCHANGED <<mem, freed>>

\* ---------------------------------------------------------------- Seek
\* the offset SeekPos resolves, and whether whence is one it knows
SeekPos(q, offset, whence) ==
    CASE whence = 0 -> [ret |-> offset, err |-> "nil"]
      [] whence = 1 -> [ret |-> Tell(q) + offset, err |-> "nil"]
      [] whence = 2 -> [ret |-> Diff(q) + offset, err |-> "nil"]
      [] OTHER -> [ret |-> Tell(q), err |-> "EINVAL"]

Seek(offset, whence) ==
    /\ kind \in {"ptr", "mem"}
    /\ LET r == SeekPos(p, offset, whence) IN
       IF ~IsOpen(p)
       THEN /\ last' = Call("Seek", offset, whence, <<>>, p.seek, "EINVAL")
            /\ UNCHANGED p
       ELSE IF r.err /= "nil"
       THEN /\ last' = Call("Seek", offset, whence, <<>>, r.ret, r.err)
            /\ UNCHANGED p
       ELSE IF ~ContainsOffset(p, r.ret)
       THEN /\ last' = [Call("Seek", offset, whence, <<>>, r.ret, "EINVAL") EXCEPT !.panic = TRUE]
            /\ UNCHANGED p
       ELSE /\ p' = [p EXCEPT !.seek = Uintptr(p.base + Uintptr(r.ret))]
            /\ last' = Call("Seek", offset, whence, <<>>, r.ret, "nil")
    /\ UNCHANGED <<kind, mem, live, freed, owned, decl>>

\* ---------------------------------------------------------------- Read and Write
\* C.memmove between a Go buffer and n bytes at address start. A block that
\* runs past the last address is undefined behaviour: the copy wraps to
\* address 0 or the process faults.
CopyOutcomes(start, n) == IF start + n > Wrap THEN {"wrap", "fault"} ELSE {"ok"}

CopyAddr(start, i) == Uintptr(start + i)

CopyAddrs(start, n) == {CopyAddr(start, i) : i \in 0 .. (n - 1)}

\* mutant: every byte delivered is the one at start
Fetch_FirstByte(start, n) == [i \in 1 .. n |-> mem[CopyAddr(start, 0)]]

\* the bytes a Read of n bytes at start delivers
Fetch(start, n) == [i \in 1 .. n |-> mem[CopyAddr(start, i - 1)]]

\* mutant: the copy takes all of src, not its first n bytes
Store_Overrun(start, n, src) ==
    [a \in Addr |->
        IF \E i \in 0 .. (Len(src) - 1) : CopyAddr(start, i) = a
        THEN src[(CHOOSE i \in 0 .. (Len(src) - 1) : CopyAddr(start, i) = a) + 1]
        ELSE mem[a]]

\* the memory after a Write of the first n bytes of src at start
Store(start, n, src) ==
    [a \in Addr |->
        IF \E i \in 0 .. (n - 1) : CopyAddr(start, i) = a
        THEN src[(CHOOSE i \in 0 .. (n - 1) : CopyAddr(start, i) = a) + 1]
        ELSE mem[a]]

\* mutant: only an empty range is turned away
NothingToCopy_RangeOnly(bufLen, rangeLen) == rangeLen = 0

\* Read and Write return 0, os.EINVAL when the buffer or the rest of the
\* range is empty
NothingToCopy(bufLen, rangeLen) == bufLen = 0 \/ rangeLen = 0

\* mutant: the bail-out forgets the EOF state
Bail_IgnoresEOF(q) == ~IsOpen(q)

\* Read and Write return 0, os.EOF at once in these states
Bail(q) == ~IsOpen(q) \/ IsEOF(q)

\* Read takes the EOF branch when the range has no more bytes than the buffer
ReadHitsEOF(srcLen, dstLen) == ~(srcLen > dstLen)

\* Write takes the EOF branch when the buffer has at least the bytes left
WriteHitsEOF(srcLen, dstLen) == srcLen >= dstLen

Fault(op, l, buf) ==
    /\ kind' = "dead"
    /\ last' = [Call(op, l, 0, buf, 0, "SIGSEGV") EXCEPT
                    !.touched = {a \in Addr : a >= p.seek}]
    /\ UNCHANGED <<p, mem>>

Read(dstLen) ==
    /\ kind \in {"ptr", "mem"}
    /\ LET srcLen == LenOf(p) IN
       IF Bail(p)
       THEN /\ last' = Call("Read", dstLen, 0, <<>>, 0, "EOF")
            /\ UNCHANGED <<kind, p, mem>>
       ELSE IF NothingToCopy(dstLen, srcLen)
       THEN /\ last' = Call("Read", dstLen, 0, <<>>, 0, "EINVAL")
            /\ UNCHANGED <<kind, p, mem>>
       ELSE LET eof == ReadHitsEOF(srcLen, dstLen)
                n == IF eof THEN srcLen ELSE dstLen
            IN  \E o \in CopyOutcomes(p.seek, n) :
                IF o = "fault"
                THEN Fault("Read", dstLen, <<>>)
                ELSE /\ p' = [p EXCEPT !.seek = IF eof THEN 0 ELSE Uintptr(p.seek + Uintptr(n))]
                     /\ last' = [Call("Read", dstLen, 0, <<>>, n, IF eof THEN "EOF" ELSE "nil") EXCEPT
                                    !.touched = CopyAddrs(p.seek, n),
                                    !.out = Fetch(p.seek, n)]
                     /\ UNCHANGED <<kind, mem>>
    /\ UNCHANGED <<live, freed, owned, decl>>

Write(src) ==
    /\ kind \in {"ptr", "mem"}
    /\ LET srcLen == Len(src)
           dstLen == LenOf(p)
       IN
       IF Bail(p)
       THEN /\ last' = Call("Write", srcLen, 0, src, 0, "EOF")
            /\ UNCHANGED <<kind, p, mem>>
       ELSE IF NothingToCopy(srcLen, dstLen)
       THEN /\ last' = Call("Write", srcLen, 0, src, 0, "EINVAL")
            /\ UNCHANGED <<kind, p, mem>>
       ELSE LET eof == WriteHitsEOF(srcLen, dstLen)
                n == IF eof THEN dstLen ELSE srcLen
            IN  \E o \in CopyOutcomes(p.seek, n) :
                IF o = "fault"
                THEN Fault("Write", srcLen, src)
                ELSE /\ p' = [p EXCEPT !.seek = IF eof THEN 0 ELSE Uintptr(p.seek + Uintptr(n))]
                     /\ mem' = Store(p.seek, n, src)
                     /\ last' = [Call("Write", srcLen, 0, src, n, IF eof THEN "EOF" ELSE "nil") EXCEPT
                                    !.touched = CopyAddrs(p.seek, n)]
                     /\ UNCHANGED kind
    /\ UNCHANGED <<live, freed, owned, decl>>

\* ---------------------------------------------------------------- Close
\* PtrCoffer.Close: zero the fields, free nothing
Close ==
    /\ kind = "ptr"
    /\ p' = Zero
    /\ last' = Call("Close", 0, 0, <<>>, 0, "nil")
    /\ UNCHANGED <<kind, mem, live, freed, owned, decl>>

\* C.free(a): a no-op for NULL; undefined for an address that is not a live
\* malloc block (the allocator aborts the process, or carries on)
FreeOutcomes(a) == IF a = 0 \/ a \in live THEN {"ok"} ELSE {"ok", "abort"}

\* MemCoffer.Close: return os.EOF when IsEOF(), else free base and zero the fields
MemCoffer_Close ==
    /\ kind = "mem"
    /\ IF IsEOF(p)
       THEN /\ last' = Call("Close", 0, 0, <<>>, 0, "EOF")
            /\ UNCHANGED <<kind, p, live, freed>>
       ELSE /\ Len(freed) < MaxFrees
            /\ \E o \in FreeOutcomes(p.base) :
                /\ kind' = IF o = "abort" THEN "dead" ELSE "mem"
                /\ freed' = Append(freed, p.base)
                /\ live' = live \ {p.base}
                /\ p' = Zero
                /\ last' = [Call("Close", 0, 0, <<>>, 0, IF o = "abort" THEN "SIGABRT" ELSE "nil") EXCEPT
                                !.free = <<p.base>>]
    /\ UNCHANGED <<mem, owned, decl>>

\* ---------------------------------------------------------------- specification
\* every call a program can make, with the source buffers drawn from bufs
Calls(bufs) ==
    \/ \E b \in Bases, sz \in Sizes : NewPtrCoffer(b, sz)
    \/ \E b \in Bases, sz \in Sizes : InitPtrCoffer(b, sz)
    \/ \E sz \in Sizes, b \in {0} \cup HeapAddrs : NewMemCoffer(sz, b)
    \/ \E off \in Offsets, w \in Whences : Seek(off, w)
    \/ \E l \in Lens : Read(l)
    \/ \E src \in bufs : Write(src)
    \/ Close
    \/ MemCoffer_Close

\* the life cycle of one instance; what is written is irrelevant to it, so
\* the buffers written hold zeros
Next == Calls(ZeroBufs)

Spec == Init /\ [][Next]_vars

\* the calls that move data, on one range per behaviour, with source buffers
\* of every content
NextData ==
    \/ \E b \in Bases, sz \in Sizes : NewPtrCoffer(b, sz)
    \/ \E sz \in Sizes, b \in {0} \cup HeapAddrs : NewMemCoffer(sz, b)
    \/ \E off \in Offsets, w \in Whences : Seek(off, w)
    \/ \E l \in Lens : Read(l)
    \/ \E src \in SrcBufs : Write(src)
    \/ Close

SpecData == Init /\ [][NextData]_vars

\* ---------------------------------------------------------------- properties
Pre == last.pre

Min(a, b) == IF a <= b THEN a ELSE b

IsCopy == last.op \in {"Read", "Write"}

\* the offset the last Seek asked for, resolved against the fields before it
Resolved == SeekPos(Pre, last.a, last.b)

WhenceKnown == last.b \in {0, 1, 2}

\* C1: on a PtrCoffer made by NewPtrCoffer(base, sz), every address a Read or
\* Write copies from or to lies in [base, base+sz-1].
C1_InBounds ==
    (decl.by = "NewPtrCoffer" /\ IsCopy) =>
        last.touched \subseteq decl.base .. (decl.base + decl.sz - 1)

\* C2: an open coffer, however it was built, has base /= 0, base <= stop and
\* Cap() >= 1.
C2_OpenRange ==
    (kind \in {"ptr", "mem"} /\ p.base /= 0) =>
        (p.base <= p.stop /\ Cap(p) >= 1)

\* C3: NewPtrCoffer(base, sz) succeeds exactly when base /= 0 and sz > 0; on
\* success the coffer is open, not at EOF, Tell() = 0 and Cap() = sz; otherwise
\* it returns EINVAL and there is no instance.
C3_NewPtrCoffer ==
    (last.op = "NewPtrCoffer") =>
        /\ (last.err = "nil") <=> (last.a /= 0 /\ last.b > 0)
        /\ (last.err = "nil") =>
              (kind = "ptr" /\ p.base /= 0 /\ p.seek /= 0 /\ Tell(p) = 0 /\ Cap(p) = last.b)
        /\ (last.err /= "nil") => (last.err = "EINVAL" /\ kind = "nil")

C3_Witness ==
    last.op = "NewPtrCoffer" /\ last.err = "nil" /\ last.b > 1 /\ kind = "ptr"

\* C4: a Read or Write on an open coffer not at EOF with a buffer of length
\* L >= 1 moves n = min(Len(), L) bytes, returns n, and advances Tell() by n.
C4_MovesMin ==
    (IsCopy /\ Pre.base /= 0 /\ Pre.seek /= 0 /\ last.a >= 1) =>
        /\ last.n = Min(LenOf(Pre), last.a)
        /\ Cardinality(last.touched) = last.n
        /\ Tell(p) = Tell(Pre) + last.n

\* C5: such a Read or Write returns EOF and marks the coffer EOF exactly when
\* Len() <= L before the call (so (L, EOF) when L = Len()); when Len() > L it
\* returns (L, nil) and the coffer is not at EOF.
C5_EOFExactly ==
    (IsCopy /\ Pre.base /= 0 /\ Pre.seek /= 0 /\ last.a >= 1) =>
        /\ (last.err = "EOF" /\ IsEOF(p)) <=> (LenOf(Pre) <= last.a)
        /\ (LenOf(Pre) = last.a) => (last.n = last.a /\ last.err = "EOF")
        /\ (LenOf(Pre) > last.a) => (last.n = last.a /\ last.err = "nil" /\ ~IsEOF(p))

\* C6: at EOF every Read and Write returns (0, EOF) for any buffer length and
\* changes nothing; of Read, Write, Seek and Close only a successful Seek
\* takes IsEOF() from true to false.
C6_EOFSticks ==
    /\ (IsCopy /\ Pre.seek = 0) =>
          (last.n = 0 /\ last.err = "EOF" /\ p = Pre /\ last.touched = {} /\ kind /= "dead")
    /\ (last.op \in {"Read", "Write", "Seek", "Close"} /\ Pre.seek = 0 /\ p.seek /= 0) =>
          (last.op = "Seek" /\ last.err = "nil" /\ ~last.panic)

C6_Witness ==
    /\ IsCopy /\ last.a >= 1 /\ last.err = "EOF" /\ last.n = 0
    /\ Pre.base /= 0 /\ Pre.seek = 0 /\ Cap(Pre) > 1

\* C7: a Seek on an open coffer whose resolved offset is outside
\* [0, Cap()-1] returns EINVAL to the caller and leaves the fields unchanged.
C7_SeekOutside ==
    (/\ last.op = "Seek" /\ Pre.base /= 0 /\ WhenceKnown
     /\ (Resolved.ret < 0 \/ Resolved.ret > Cap(Pre) - 1)) =>
        (last.err = "EINVAL" /\ ~last.panic /\ p = Pre)

\* C8: a Seek on an open coffer whose resolved offset r is in [0, Cap()-1]
\* returns (r, nil), sets the cursor to base + r, clears EOF and leaves base
\* and stop alone; afterwards Tell() = r and Len() = Cap() - r.
C8_SeekInside ==
    (/\ last.op = "Seek" /\ Pre.base /= 0 /\ WhenceKnown
     /\ Resolved.ret >= 0 /\ Resolved.ret <= Cap(Pre) - 1) =>
        /\ last.n = Resolved.ret /\ last.err = "nil" /\ ~last.panic
        /\ p.seek = Pre.base + Resolved.ret
        /\ ~IsEOF(p)
        /\ p.base = Pre.base /\ p.stop = Pre.stop
        /\ Tell(p) = Resolved.ret
        /\ LenOf(p) = Cap(p) - Resolved.ret

\* C9: on a closed coffer (base = 0) Read and Write return (0, EOF), Seek
\* returns EINVAL, Len() = 0, and none of them changes a field or copies.
C9_ClosedFails ==
    /\ (last.op \in {"Read", "Write", "Seek"} /\ Pre.base = 0) =>
          /\ IsCopy => (last.n = 0 /\ last.err = "EOF")
          /\ (last.op = "Seek") => (last.err = "EINVAL" /\ ~last.panic)
          /\ p = Pre /\ last.touched = {} /\ last.free = <<>> /\ kind /= "dead"
    /\ (kind \in {"ptr", "mem"} /\ p.base = 0) => LenOf(p) = 0

C9_Witness ==
    /\ last.op = "Seek" /\ last.a = 0 /\ last.b = 0 /\ Pre.base = 0
    /\ freed /= <<>>

\* how often address a was passed to C.free
Frees(a) == Cardinality({i \in DOMAIN freed : freed[i] = a})

\* C10: a Close on a closed coffer changes no field and frees nothing; the
\* block NewMemCoffer allocated is freed at most once.
C10_FreedOnce ==
    /\ (last.op = "Close" /\ Pre.base = 0) => (p = Pre /\ last.free = <<>>)
    /\ (owned /= 0) => Frees(owned) <= 1

\* C11: Close on an open MemCoffer, in any cursor state (EOF included), frees
\* the block NewMemCoffer allocated and leaves every field zero.
C11_CloseFrees ==
    (/\ last.op = "Close" /\ kind = "mem" /\ decl.by = "NewMemCoffer"
     /\ Pre.base /= 0) =>
        (last.free = <<owned>> /\ p = Zero)

\* C13: GetBasePtr(), GetSeekPtr() and GetStopPtr() return the fields base,
\* seek and stop.
C13_Getters ==
    (kind \in {"ptr", "mem"}) =>
        /\ GetBasePtr(p) = p.base
        /\ GetSeekPtr(p) = p.seek
        /\ GetStopPtr(p) = p.stop

\* C14: on a coffer a constructor has opened, IsEOF() is true exactly when a
\* Read or Write has returned EOF and no Seek has succeeded since.
C14_EOFMeansHit ==
    (kind \in {"ptr", "mem"} /\ decl.by /= "none") => (IsEOF(p) <=> last.hit)

\* C15: for every (base, sz) NewPtrCoffer or InitPtrCoffer accepts, base +
\* (sz - 1) does not wrap (stop >= base); every cursor a successful Seek sets
\* is non-zero and lies in [base, stop].
C15_NoWrap ==
    /\ (last.op \in {"NewPtrCoffer", "InitPtrCoffer"} /\ last.err = "nil") =>
          (last.a + (last.b - 1) < Wrap /\ p.stop >= p.base)
    /\ (last.op = "Seek" /\ last.err = "nil") =>
          (p.seek /= 0 /\ p.base <= p.seek /\ p.seek <= p.stop)

\* C18: on an open coffer Len() + Tell() = Cap(), both lie in 0 .. Cap(), and
\* Tell() = Cap() exactly at EOF.
C18_LenTellCap ==
    (kind \in {"ptr", "mem"} /\ p.base /= 0) =>
        /\ LenOf(p) + Tell(p) = Cap(p)
        /\ 0 <= Tell(p) /\ Tell(p) <= Cap(p)
        /\ 0 <= LenOf(p) /\ LenOf(p) <= Cap(p)
        /\ (Tell(p) = Cap(p)) <=> (p.seek = 0)

\* C19: on an open coffer with Cap() >= 1, Seek(off, 2) succeeds exactly when
\* -(Cap()-1) <= off <= 0; Seek(0, 2) returns Cap()-1 and leaves
\* Tell() = Cap()-1 and Len() = 1.
C19_SeekFromEnd ==
    (last.op = "Seek" /\ last.b = 2 /\ Pre.base /= 0 /\ Cap(Pre) >= 1) =>
        /\ (last.err = "nil") <=> (-(Cap(Pre) - 1) <= last.a /\ last.a <= 0)
        /\ (last.a = 0) =>
              /\ last.err = "nil" /\ last.n = Cap(Pre) - 1
              /\ Tell(p) = Cap(p) - 1 /\ LenOf(p) = 1

\* C20: MemCoffer.Close passes to C.free only the address this coffer's own
\* malloc returned, and only while that block has not been freed.
C20_FreesOwnBlock ==
    (last.op = "Close" /\ last.free /= <<>>) =>
        (owned /= 0 /\ last.free = <<owned>> /\ Frees(owned) = 1)

\* ---------------------------------------------------------------- properties of SpecData
\* C12: on a freshly opened coffer, writing k >= 1 bytes that all fit, then
\* Seek(0, 0), then a Read into a buffer of length k that returns, moves k
\* bytes and delivers the k bytes written, in order.
C12_RoundTrip ==
    (last.trip.st = "read" /\ kind /= "dead") =>
        (last.n = Len(last.trip.buf) /\ last.out = last.trip.buf)

C12_Witness ==
    /\ last.trip.st = "read" /\ kind /= "dead"
    /\ Len(last.trip.buf) = MaxLen /\ last.trip.buf[1] /= last.trip.buf[2]
    /\ last.out = last.trip.buf

\* a step that is a Read or Write call reporting zero bytes moved
ZeroMoved == last'.op \in {"Read", "Write"} /\ last'.n = 0

\* C16: a Read or Write that reports zero bytes moved changes no field and no
\* byte; with a zero-length buffer on an open coffer not at EOF it returns
\* (0, EINVAL).
C16_ZeroMovedNoChange ==
    [][/\ ZeroMoved => (p' = p /\ mem' = mem)
       /\ (last'.op \in {"Read", "Write"} /\ last'.a = 0 /\ IsOpen(p) /\ ~IsEOF(p)) =>
             (last'.n = 0 /\ last'.err = "EINVAL" /\ p' = p /\ mem' = mem)]_vars

C16_Witness ==
    /\ last.op = "Write" /\ last.a = 0 /\ last.n = 0 /\ last.err = "EINVAL"
    /\ Pre.base /= 0 /\ Pre.seek /= 0 /\ Tell(Pre) >= 1
    /\ \E a \in Addr : mem[a] /= 0

\* the address of the byte at offset i past the cursor, by Tell() before the call
AtOffset(i) == Uintptr(p.base + Tell(p) + i)

\* C17: a Write that moves n bytes sets the bytes at offsets Tell() ..
\* Tell()+n-1 to the first n bytes of its source and changes no other byte,
\* nor base or stop; a Read changes no byte.
C17_WriteFrame ==
    [][/\ (last'.op = "Write" /\ last'.n >= 1) =>
             /\ \A i \in 0 .. (last'.n - 1) : mem'[AtOffset(i)] = last'.buf[i + 1]
             /\ \A a \in Addr \ {AtOffset(i) : i \in 0 .. (last'.n - 1)} : mem'[a] = mem[a]
             /\ p'.base = p.base /\ p'.stop = p.stop
       /\ (last'.op = "Read") => mem' = mem]_vars

C17_Witness ==
    /\ last.op = "Write" /\ last.a = MaxLen /\ last.n = 1 /\ last.err = "EOF"
    /\ Tell(Pre) >= 1 /\ last.buf[1] /= 0 /\ last.buf[2] /= 0
    /\ mem[Pre.seek] = last.buf[1]

====
